---- MODULE Spec2Model ----
(***************************************************************************)
(* Model of agile/commands/github.py: the Github release command.          *)
(*                                                                         *)
(* Python strings are modelled as sequences of one-character strings, so   *)
(* that find, replace, split, strip, lower and int() are computed the way  *)
(* CPython computes them.                                                  *)
(***************************************************************************)
EXTENDS Integers, Sequences, FiniteSets, TLC

VARIABLES
    pc,          \* position of the running coroutine
    message,     \* add_note: the message being inspected
    idx,         \* add_note: position of the zip(bits[:-1], bits[1:]) loop
    substitutes, \* add_note: the substitutes dict, in insertion order
    notes,       \* the notes list handed to add_note
    lookups,     \* repo.issue(number).get() calls of the current add_note call
    raised,      \* the exception that escaped, "" when none
    meta,        \* dte, eid and entry['html_url'] of the current entry
    frame,       \* collectors: where add_note returns to, and len(notes) at the call
    processed,   \* collectors: one record per finished add_note call
    fetched,     \* collectors: number of messages handed out by the repository
    all_notes,   \* release_notes: its notes list, extended by each collector
    sections,    \* release_notes: the sections dict, keys in insertion order
    doc,         \* release_notes: the body list of lines
    cfg,         \* __call__: version, commit and push settings
    file,        \* __call__: release-notes.md, [exists, content]
    release,     \* __call__: the release dict's body
    calls        \* __call__: the collaborator calls made so far, in order

vars == <<pc, message, idx, substitutes, notes, lookups, raised, meta, frame,
          processed, fetched, all_notes, sections, doc, cfg, file, release,
          calls>>

noteVars == <<message, idx, substitutes, notes, lookups, raised, meta>>
collectVars == <<frame, processed, fetched>>
renderVars == <<all_notes, sections, doc>>
releaseVars == <<cfg, file, release, calls>>

-----------------------------------------------------------------------------
(* Bounds of the model.                                                    *)

\* Longest message of SpecNote, in fragments.
MaxFrags == 4
\* Most messages one collector run of SpecCollect hands to add_note.
MaxMsgs == 3
\* Most notes collected before rendering in SpecRender.
MaxNotes == 3
\* Note timestamps range over 1..MaxTs.
MaxTs == 2
\* Most notes the collectors return in one run of SpecRelease.
MaxGenerated == 1

-----------------------------------------------------------------------------
(* Python str operations.                                                  *)

\* The characters of the model, each block in code point order.
Digits == <<"0", "1", "2", "3", "4", "5", "6", "7", "8", "9">>

UpperCase ==
    <<"A", "B", "C", "D", "E", "F", "G", "H", "I", "J", "K", "L", "M", "N",
      "O", "P", "Q", "R", "S", "T", "U", "V", "W", "X", "Y", "Z">>

LowerCase ==
    <<"a", "b", "c", "d", "e", "f", "g", "h", "i", "j", "k", "l", "m", "n",
      "o", "p", "q", "r", "s", "t", "u", "v", "w", "x", "y", "z">>

\* Other characters with their code points.
Punctuation ==
    { <<"\t", 9>>, <<"\n", 10>>, <<" ", 32>>, <<"#", 35>>, <<"(", 40>>,
      <<")", 41>>, <<"*", 42>>, <<"+", 43>>, <<"-", 45>>, <<".", 46>>,
      <<"/", 47>>, <<"=", 61>>, <<"[", 91>>, <<"]", 93>> }

CodePoints ==
    Punctuation
      \cup {<<Digits[i], 47 + i>> : i \in DOMAIN Digits}
      \cup {<<UpperCase[i], 64 + i>> : i \in DOMAIN UpperCase}
      \cup {<<LowerCase[i], 96 + i>> : i \in DOMAIN LowerCase}

Chars == {p[1] : p \in CodePoints}

OrdTable == [c \in Chars |-> (CHOOSE p \in CodePoints : p[1] = c)[2]]

\* ord(c)
Ord(c) == OrdTable[c]

\* chr(n)
Chr(n) == (CHOOSE p \in CodePoints : p[2] = n)[1]

\* str.isspace for one character.
IsSpace(c) == c \in {" ", "\n", "\t"}

IsDigit(c) == c \in {"0", "1", "2", "3", "4", "5", "6", "7", "8", "9"}

LowerChar(c) == IF Ord(c) >= 65 /\ Ord(c) <= 90 THEN Chr(Ord(c) + 32) ELSE c

UpperChar(c) == IF Ord(c) >= 97 /\ Ord(c) <= 122 THEN Chr(Ord(c) - 32) ELSE c

\* str.lower
Lower(s) == [i \in DOMAIN s |-> LowerChar(s[i])]

\* s[i:] with a 0-based start
From(s, i) == SubSeq(s, i + 1, Len(s))

\* s[i:i+len(k)] == k, i 0-based
HasAt(s, k, i) ==
    /\ i + Len(k) <= Len(s)
    /\ \A j \in 1..Len(k) : s[i + j] = k[j]

\* s.startswith(k)
StartsWith(s, k) == HasAt(s, k, 0)

RECURSIVE FindFrom(_, _, _)
FindFrom(s, k, i) ==
    IF i + Len(k) > Len(s) THEN -1
    ELSE IF HasAt(s, k, i) THEN i
    ELSE FindFrom(s, k, i + 1)

\* s.find(k): the lowest 0-based index of k in s, -1 when there is none
Find(s, k) == FindFrom(s, k, 0)

RECURSIVE ReplaceFrom(_, _, _, _)
ReplaceFrom(s, old, new, i) ==
    IF i >= Len(s) THEN <<>>
    ELSE IF HasAt(s, old, i) THEN new \o ReplaceFrom(s, old, new, i + Len(old))
    ELSE <<s[i + 1]>> \o ReplaceFrom(s, old, new, i + 1)

\* s.replace(old, new) for a non-empty old: every non-overlapping occurrence,
\* found left to right in s; the result is not scanned again.
Replace(s, old, new) == ReplaceFrom(s, old, new, 0)

RECURSIVE LStrip(_)
LStrip(s) == IF s # <<>> /\ IsSpace(s[1]) THEN LStrip(Tail(s)) ELSE s

RECURSIVE RStrip(_)
RStrip(s) ==
    IF s # <<>> /\ IsSpace(s[Len(s)]) THEN RStrip(SubSeq(s, 1, Len(s) - 1))
    ELSE s

\* s.strip()
Strip(s) == RStrip(LStrip(s))

RECURSIVE SplitFrom(_, _, _)
SplitFrom(s, i, cur) ==
    IF i > Len(s) THEN (IF cur = <<>> THEN <<>> ELSE <<cur>>)
    ELSE IF IsSpace(s[i])
         THEN (IF cur = <<>> THEN <<>> ELSE <<cur>>) \o SplitFrom(s, i + 1, <<>>)
    ELSE SplitFrom(s, i + 1, Append(cur, s[i]))

\* s.split(): the maximal runs of non-whitespace characters
Split(s) == SplitFrom(s, 1, <<>>)

RECURSIVE Join(_, _)
\* sep.join(parts)
Join(parts, sep) ==
    IF parts = <<>> THEN <<>>
    ELSE IF Len(parts) = 1 THEN parts[1]
    ELSE parts[1] \o sep \o Join(Tail(parts), sep)

DigitVal(c) == Ord(c) - 48

\* Whether int(t) returns: an optional sign, then digits only.  (Tokens come
\* from split(), so they hold no whitespace.)
IsInt(t) ==
    LET d == IF t # <<>> /\ t[1] \in {"+", "-"} THEN Tail(t) ELSE t
    IN  d # <<>> /\ \A i \in DOMAIN d : IsDigit(d[i])

RECURSIVE DigitsVal(_)
DigitsVal(d) ==
    IF d = <<>> THEN 0
    ELSE 10 * DigitsVal(SubSeq(d, 1, Len(d) - 1)) + DigitVal(d[Len(d)])

\* int(t) where IsInt(t)
IntOf(t) ==
    IF t[1] = "-" THEN 0 - DigitsVal(Tail(t))
    ELSE IF t[1] = "+" THEN DigitsVal(Tail(t))
    ELSE DigitsVal(t)

RECURSIVE DecStr(_)
\* '%d' % n
DecStr(n) ==
    IF n < 0 THEN <<"-">> \o DecStr(0 - n)
    ELSE IF n < 10 THEN <<Chr(48 + n)>>
    ELSE DecStr(n \div 10) \o <<Chr(48 + (n % 10))>>

\* pulsar.utils.html.capfirst: the first letter capitalised
capfirst(s) ==
    LET x == Strip(s)
    IN  IF x = <<>> THEN x ELSE <<UpperChar(x[1])>> \o Tail(x)

-----------------------------------------------------------------------------
(* Module constants of github.py.                                          *)

close_issue ==
    { <<"c","l","o","s","e">>, <<"c","l","o","s","e","s">>,
      <<"c","l","o","s","e","d">>, <<"f","i","x">>, <<"f","i","x","e","s">>,
      <<"f","i","x","e","d">>, <<"r","e","s","o","l","v","e">>,
      <<"r","e","s","o","l","v","e","s">>, <<"r","e","s","o","l","v","e","d">> }

\* key = '#release-note'
key == <<"#","r","e","l","e","a","s","e","-","n","o","t","e">>

-----------------------------------------------------------------------------
(* add_note.                                                               *)

\* issue['html_url'] of issue number n as the repository reports it
html_url(n) == <<"x","/">> \o DecStr(n)

\* bits = message.split()
bits == Split(message)

\* length of zip(bits[:-1], bits[1:])
NPairs == IF bits = <<>> THEN 0 ELSE Len(bits) - 1

\* the names (keys) of the substitutes dict
SubstituteNames == {substitutes[k][1] : k \in DOMAIN substitutes}

\* line 121: bit.startswith('#') and msg.lower() in close_issue
IsCloseReference(msg, bit) ==
    StartsWith(bit, <<"#">>) /\ Lower(msg) \in close_issue

\* lines 121-126 for the pair at i: the lookup of line 128 is reached
NeedsLookup(i) ==
    /\ IsCloseReference(bits[i], bits[i + 1])
    /\ IsInt(Tail(bits[i + 1]))
    /\ bits[i + 1] \notin SubstituteNames

\* '[%s](%s)' % (name, url)
Link(name, url) == <<"[">> \o name \o <<"]","(">> \o url \o <<")">>

RECURSIVE Substitute(_, _)
\* lines 133-134: message.replace for every item of substitutes, in dict order
Substitute(msg, subs) ==
    IF subs = <<>> THEN msg
    ELSE Substitute(Replace(msg, subs[1][1], Link(subs[1][1], subs[1][2])),
                    Tail(subs))

\* lines 137-147: the marker branch for a message whose first marker is at
\* index.  error is TRUE when line 139 raises IndexError; emit tells whether
\* line 147 appends the note.
MarkerNote(msg, index, m) ==
    LET index1 == index + Len(key)
        withSection == Len(msg) > index1 /\ msg[index1 + 1] = "="
        tokens == IF withSection THEN Split(From(msg, index1 + 1)) ELSE <<>>
    IN  IF withSection /\ tokens = <<>>
        THEN [error |-> TRUE, emit |-> FALSE, note |-> <<>>]
        ELSE LET section == IF withSection THEN tokens[1] ELSE <<>>
                 key2 == IF withSection THEN key \o <<"=">> \o section ELSE key
                 body == Strip(Replace(msg, key2, <<>>))
             IN  [error |-> FALSE,
                  emit  |-> body # <<>>,
                  note  |-> [dte |-> m.dte,
                             section |-> Lower(section),
                             body |-> capfirst(body) \o <<" ","[">> \o m.eid
                                        \o <<"]","(">> \o m.url \o <<")">>]]

\* lines 114-117 and 136-147: the marker is found
AddNoteMarker ==
    /\ pc = "add_note"
    /\ Find(message, key) # -1
    /\ LET r == MarkerNote(message, Find(message, key), meta)
       IN  /\ pc' = IF r.error THEN "note_raised" ELSE "note_done"
           /\ raised' = IF r.error THEN "IndexError" ELSE raised
           /\ notes' = IF r.emit THEN Append(notes, r.note) ELSE notes
    /\ UNCHANGED <<message, idx, substitutes, lookups, meta>>
    /\ UNCHANGED <<collectVars, renderVars, releaseVars>>

\* lines 114-119: no marker, the scan of the pairs starts
AddNoteScan ==
    /\ pc = "add_note"
    /\ Find(message, key) = -1
    /\ pc' = "scan"
    /\ idx' = 1
    /\ substitutes' = <<>>
    /\ UNCHANGED <<message, notes, lookups, raised, meta>>
    /\ UNCHANGED <<collectVars, renderVars, releaseVars>>

\* lines 120-126: a pair that reaches no lookup
ScanSkip ==
    /\ pc = "scan"
    /\ idx <= NPairs
    /\ ~NeedsLookup(idx)
    /\ idx' = idx + 1
    /\ UNCHANGED <<pc, message, substitutes, notes, lookups, raised, meta>>
    /\ UNCHANGED <<collectVars, renderVars, releaseVars>>

\* lines 127-131: the lookup returns the issue
IssueGetOk ==
    /\ pc = "scan"
    /\ idx <= NPairs
    /\ NeedsLookup(idx)
    /\ LET bit == bits[idx + 1]
           number == IntOf(Tail(bit))
       IN  /\ lookups' = Append(lookups, [bit |-> bit, number |-> number, ok |-> TRUE])
           /\ substitutes' = Append(substitutes, <<bit, html_url(number)>>)
    /\ idx' = idx + 1
    /\ UNCHANGED <<pc, message, notes, raised, meta>>
    /\ UNCHANGED <<collectVars, renderVars, releaseVars>>

\* IssueGetFail without the try/except of lines 127-130: the error escapes
IssueGetFail_Escapes ==
    /\ pc = "scan"
    /\ idx <= NPairs
    /\ NeedsLookup(idx)
    /\ LET bit == bits[idx + 1]
       IN  lookups' = Append(lookups, [bit |-> bit, number |-> IntOf(Tail(bit)), ok |-> FALSE])
    /\ pc' = "note_raised"
    /\ raised' = "LookupError"
    /\ UNCHANGED <<message, idx, substitutes, notes, meta>>
    /\ UNCHANGED <<collectVars, renderVars, releaseVars>>

\* lines 127-130: the lookup raises, the pair is skipped
IssueGetFail ==
    /\ pc = "scan"
    /\ idx <= NPairs
    /\ NeedsLookup(idx)
    /\ LET bit == bits[idx + 1]
       IN  lookups' = Append(lookups, [bit |-> bit, number |-> IntOf(Tail(bit)), ok |-> FALSE])
    /\ idx' = idx + 1
    /\ UNCHANGED <<pc, message, substitutes, notes, raised, meta>>
    /\ UNCHANGED <<collectVars, renderVars, releaseVars>>

\* lines 132-135: after the loop
ScanEnd ==
    /\ pc = "scan"
    /\ idx > NPairs
    /\ pc' = "note_done"
    /\ notes' = IF substitutes # <<>>
                THEN Append(notes, [dte |-> meta.dte, section |-> <<>>,
                                    body |-> Substitute(message, substitutes)])
                ELSE notes
    /\ UNCHANGED <<message, idx, substitutes, lookups, raised, meta>>
    /\ UNCHANGED <<collectVars, renderVars, releaseVars>>

AddNote ==
    \/ AddNoteMarker
    \/ AddNoteScan
    \/ ScanSkip
    \/ IssueGetOk
    \/ IssueGetFail
    \/ ScanEnd

-----------------------------------------------------------------------------
(* SpecNote: one add_note call on every message built from the fragments.  *)

Fragments ==
    { <<"f","i","x","e","s"," ","#","7">>,
      <<"C","l","o","s","e","d"," ","#","x">>,
      <<"0">>,
      <<" ">>,
      <<"#","r","e","l","e","a","s","e","-","n","o","t","e">>,
      <<"#","r","e","l","e","a","s","e">>,
      <<"-","n","o","t","e">>,
      <<"=">>,
      <<"F","o","o">> }

RECURSIVE MessagesUpTo(_)
MessagesUpTo(n) ==
    IF n = 0 THEN {<<>>}
    ELSE LET prev == MessagesUpTo(n - 1)
         IN  prev \cup {m \o f : m \in prev, f \in Fragments}

Messages == MessagesUpTo(MaxFrags)

\* a commit entry: dte, eid = sha[:7], html_url
CommitMeta == [dte |-> 1, eid |-> <<"a","b","c","1","2","3","4">>,
               url |-> <<"x","/","c">>]

\* the collectors are not running
IdleCollect ==
    /\ frame = [ret |-> "", before |-> 0]
    /\ processed = <<>>
    /\ fetched = 0

\* release_notes is not running
IdleRender ==
    /\ all_notes = <<>>
    /\ sections = <<>>
    /\ doc = <<>>

\* __call__ is not running
IdleRelease ==
    /\ cfg = [version |-> <<>>, python_module |-> FALSE, commit |-> FALSE,
              push |-> FALSE]
    /\ file = [exists |-> FALSE, content |-> <<>>]
    /\ release = <<>>
    /\ calls = <<>>

InitNote ==
    /\ pc = "add_note"
    /\ message \in Messages
    /\ idx = 0
    /\ substitutes = <<>>
    /\ notes = <<>>
    /\ lookups = <<>>
    /\ raised = ""
    /\ meta = CommitMeta
    /\ IdleCollect
    /\ IdleRender
    /\ IdleRelease

NextNote == AddNote

SpecNote == InitNote /\ [][NextNote]_vars

-----------------------------------------------------------------------------
(* Claims about add_note, checked under SpecNote.                          *)

RECURSIVE CountFrom(_, _, _)
CountFrom(s, k, i) ==
    IF i + Len(k) > Len(s) THEN 0
    ELSE IF HasAt(s, k, i) THEN 1 + CountFrom(s, k, i + Len(k))
    ELSE CountFrom(s, k, i + 1)

\* number of non-overlapping occurrences of k in s
Count(s, k) == CountFrom(s, k, 0)

Contains(s, k) == \E i \in 0..Len(s) : HasAt(s, k, i)

HasMarker(msg) == Contains(msg, key)

\* 0-based index just after the first marker of msg
AfterMarker(msg) ==
    (CHOOSE i \in 0..Len(msg) :
        HasAt(msg, key, i) /\ \A j \in 0..(i - 1) : ~HasAt(msg, key, j)) + Len(key)

\* the first marker of msg is immediately followed by "="
MarkerHasSection(msg) ==
    /\ HasMarker(msg)
    /\ Len(msg) > AfterMarker(msg)
    /\ msg[AfterMarker(msg) + 1] = "="

RECURSIVE UpToSpace(_)
UpToSpace(s) ==
    IF s = <<>> \/ IsSpace(s[1]) THEN <<>> ELSE <<s[1]>> \o UpToSpace(Tail(s))

\* the token that follows the "=" of the first marker, up to the next whitespace
SectionToken(msg) == UpToSpace(From(msg, AfterMarker(msg) + 1))

ResolvedLookups == {k \in DOMAIN lookups : lookups[k].ok}

\* C2: for a message without the marker in which a close keyword is followed
\* by a token #N that resolved, add_note appends exactly one note with empty
\* section whose body contains the link [#N](u) of every resolved reference,
\* each occurrence of its token replaced by its link exactly once, also when
\* several different references are resolved in the same message.  (That a
\* token is looked up once is stated by C10_Claim.)
C2_Claim ==
    (pc = "note_done" /\ ~HasMarker(message) /\ ResolvedLookups # {}) =>
        /\ Len(notes) = 1
        /\ notes[1].section = <<>>
        /\ \A k \in ResolvedLookups :
              LET bit == lookups[k].bit
                  link == Link(bit, html_url(lookups[k].number))
              IN  /\ Contains(notes[1].body, link)
                  /\ Count(notes[1].body, link) = Count(message, bit)

\* C3: for a message whose marker is not followed by "=section", every note
\* add_note emits has the empty section and a body without the marker text.
C3_Claim ==
    (pc = "note_done" /\ HasMarker(message) /\ ~MarkerHasSection(message)) =>
        \A k \in DOMAIN notes :
            notes[k].section = <<>> /\ ~Contains(notes[k].body, key)

\* C4: for a message whose first marker is immediately followed by "=",
\* add_note returns normally and emits either no note or one note whose
\* section is the lowercased token after the "=" and whose body holds
\* neither the marker nor its "=token" suffix.
C4_Claim ==
    MarkerHasSection(message) =>
        /\ pc # "note_raised"
        /\ pc = "note_done" =>
              \/ notes = <<>>
              \/ /\ Len(notes) = 1
                 /\ notes[1].section = Lower(SectionToken(message))
                 /\ ~Contains(notes[1].body, key)

\* C10: within one add_note call on a message without the marker, each
\* distinct #N token is submitted to the issue lookup at most once, also
\* after a lookup for it has failed.
C10_Claim ==
    ~HasMarker(message) =>
        \A j, k \in DOMAIN lookups : lookups[j].bit = lookups[k].bit => j = k

-----------------------------------------------------------------------------
(* _from_commits and _from_pull_requests.  The lists the repository        *)
(* returns are read one entry at a time, so each entry is drawn when the   *)
(* loop reaches it.                                                        *)

\* messages of commits, pull requests and comments
Corpus ==
    { <<"f","i","x","e","s"," ","#","7">>,
      <<"C","l","o","s","e","d"," ","#","x">>,
      <<"F","o","o"," ","#","r","e","l","e","a","s","e","-","n","o","t","e">>,
      <<"#","r","e","l","e","a","s","e","-","n","o","t","e","=","F","o","o"," ","a">>,
      <<"F","o","o">>,
      <<"#","r","e","l","e","a","s","e","-","n","o","t","e","=">> }

\* entry['sha'] of a commit
Sha == <<"a","b","c","1","2","3","4","d","e","f">>

\* entry['number'] of a pull request
PullNumbers == {12}

\* the reference timestamp created_at, and the timestamps after it
Since == 0
Dates == 1..MaxTs

\* line 195: dte > self.since
check_update(updated_at) == updated_at > Since

\* the call of add_note(repo, notes, msg, dte, eid, entry), returning to ret
CallAddNote(msg, m, ret) ==
    /\ pc' = "add_note"
    /\ message' = msg
    /\ meta' = m
    /\ idx' = 0
    /\ substitutes' = <<>>
    /\ lookups' = <<>>
    /\ frame' = [ret |-> ret, before |-> Len(notes)]
    /\ fetched' = fetched + 1
    /\ UNCHANGED <<notes, raised, processed>>
    /\ UNCHANGED <<renderVars, releaseVars>>

\* add_note returned to the collector that awaited it
NoteReturn ==
    /\ pc = "note_done"
    /\ frame.ret # ""
    /\ pc' = frame.ret
    /\ processed' = Append(processed,
          [message  |-> message,
           added    |-> SubSeq(notes, frame.before + 1, Len(notes)),
           resolved |-> Cardinality({k \in DOMAIN lookups : lookups[k].ok}),
           failed   |-> Cardinality({k \in DOMAIN lookups : ~lookups[k].ok})])
    /\ UNCHANGED <<message, idx, substitutes, notes, lookups, raised, meta>>
    /\ UNCHANGED <<frame, fetched>>
    /\ UNCHANGED <<renderVars, releaseVars>>

\* an exception of add_note is caught nowhere in the collectors
NoteRaise ==
    /\ pc = "note_raised"
    /\ frame.ret # ""
    /\ pc' = "raised"
    /\ UNCHANGED <<noteVars, collectVars, renderVars, releaseVars>>

\* line 152: commits = await repo.commits(since=created_at); notes = []
FetchCommits ==
    /\ pc = "from_commits"
    /\ pc' = "commits"
    /\ notes' = <<>>
    /\ UNCHANGED <<message, idx, substitutes, lookups, raised, meta>>
    /\ UNCHANGED <<collectVars, renderVars, releaseVars>>

\* lines 154-159: the next commit of the list
NextCommit ==
    /\ pc = "commits"
    /\ fetched < MaxMsgs
    /\ \E msg \in Corpus, dte \in Dates, comment_count \in {0, 1} :
          CallAddNote(msg,
                      [dte |-> dte, eid |-> SubSeq(Sha, 1, 7), url |-> <<"x","/","c">>],
                      IF comment_count # 0 THEN "fetch_commit_comments"
                                           ELSE "commits")

\* lines 161-162: await commit.comments() returned the comments
FetchCommitComments ==
    /\ pc = "fetch_commit_comments"
    /\ pc' = "commit_comments"
    /\ UNCHANGED <<noteVars, collectVars, renderVars, releaseVars>>

\* lines 162-164: the next comment of the commit
NextCommitComment ==
    /\ pc = "commit_comments"
    /\ fetched < MaxMsgs
    /\ \E msg \in Corpus : CallAddNote(msg, meta, "commit_comments")

\* line 162: the comments of the commit are exhausted
EndCommitComments ==
    /\ pc = "commit_comments"
    /\ pc' = "commits"
    /\ UNCHANGED <<noteVars, collectVars, renderVars, releaseVars>>

\* lines 165 and 91: the commits are exhausted, notes.extend(...)
EndCommits ==
    /\ pc = "commits"
    /\ pc' = "from_pulls"
    /\ all_notes' = all_notes \o notes
    /\ UNCHANGED <<sections, doc>>
    /\ UNCHANGED <<noteVars, collectVars, releaseVars>>

\* lines 170-173: pulls = await repo.pulls(...); notes = []
FetchPulls ==
    /\ pc = "from_pulls"
    /\ pc' = "pulls"
    /\ notes' = <<>>
    /\ UNCHANGED <<message, idx, substitutes, lookups, raised, meta>>
    /\ UNCHANGED <<collectVars, renderVars, releaseVars>>

\* lines 174-178: the next pull request that passed check_update
NextPull ==
    /\ pc = "pulls"
    /\ fetched < MaxMsgs
    /\ \E msg \in Corpus, closed_at \in Dates, updated_at \in Dates,
          number \in PullNumbers :
          /\ check_update(updated_at)
          /\ CallAddNote(msg,
                         [dte |-> closed_at,
                          eid |-> <<"#">> \o DecStr(number),
                          url |-> <<"x","/","p">> \o DecStr(number)],
                         "fetch_pull_comments")

\* lines 179-180: await pull.comments() returned the comments
FetchPullComments ==
    /\ pc = "fetch_pull_comments"
    /\ pc' = "pull_comments"
    /\ UNCHANGED <<noteVars, collectVars, renderVars, releaseVars>>

\* lines 181-182: the next comment of the pull request
NextPullComment ==
    /\ pc = "pull_comments"
    /\ fetched < MaxMsgs
    /\ \E msg \in Corpus : CallAddNote(msg, meta, "pull_comments")

\* line 180: the comments of the pull request are exhausted
EndPullComments ==
    /\ pc = "pull_comments"
    /\ pc' = "pulls"
    /\ UNCHANGED <<noteVars, collectVars, renderVars, releaseVars>>

\* lines 183 and 92: the pull requests are exhausted, notes.extend(...)
EndPulls ==
    /\ pc = "pulls"
    /\ pc' = "collected"
    /\ all_notes' = all_notes \o notes
    /\ UNCHANGED <<sections, doc>>
    /\ UNCHANGED <<noteVars, collectVars, releaseVars>>

\* a fetch of commits, pull requests or comments raises: nothing catches it
FetchFail ==
    /\ pc \in {"from_commits", "fetch_commit_comments", "from_pulls",
              "fetch_pull_comments"}
    /\ pc' = "raised"
    /\ raised' = "FetchError"
    /\ UNCHANGED <<message, idx, substitutes, notes, lookups, meta>>
    /\ UNCHANGED <<collectVars, renderVars, releaseVars>>

Collect ==
    \/ FetchCommits
    \/ NextCommit
    \/ FetchCommitComments
    \/ NextCommitComment
    \/ EndCommitComments
    \/ EndCommits
    \/ FetchPulls
    \/ NextPull
    \/ FetchPullComments
    \/ NextPullComment
    \/ EndPullComments
    \/ EndPulls
    \/ FetchFail
    \/ NoteReturn
    \/ NoteRaise

InitCollect ==
    /\ pc = "from_commits"
    /\ message = <<>>
    /\ idx = 0
    /\ substitutes = <<>>
    /\ notes = <<>>
    /\ lookups = <<>>
    /\ raised = ""
    /\ meta = CommitMeta
    /\ IdleCollect
    /\ IdleRender
    /\ IdleRelease

NextCollect == Collect \/ AddNote

SpecCollect == InitCollect /\ [][NextCollect]_vars

-----------------------------------------------------------------------------
(* Claims about the collectors, checked under SpecCollect.                 *)

RECURSIVE Contributions(_)
\* the notes the finished add_note calls appended, in call order
Contributions(ps) ==
    IF ps = <<>> THEN <<>> ELSE ps[1].added \o Contributions(Tail(ps))

\* a finished call on a message without the marker in which no close
\* reference resolved: every lookup failed or the suffix was not a number
Unresolved(p) == ~HasMarker(p.message) /\ p.resolved = 0

\* C1: a message without the marker whose only close references fail to
\* resolve (failed lookup, or non-numeric suffix) makes add_note return
\* normally without appending a note and without raising; and the collectors
\* still return every note the other messages contributed.
C1_Thm ==
    /\ \A k \in DOMAIN processed :
          Unresolved(processed[k]) => processed[k].added = <<>>
    /\ (~HasMarker(message) /\ pc \in {"scan", "note_done"}
          /\ \A k \in DOMAIN lookups : ~lookups[k].ok)
          => Len(notes) = frame.before
    /\ ~HasMarker(message) => pc # "note_raised"
    /\ pc = "raised" => (raised = "FetchError" \/ HasMarker(message))
    /\ pc = "collected" =>
          /\ Len(processed) = fetched
          /\ all_notes = Contributions(processed)

\* a run that returned after a failed lookup, a non-numeric reference and a
\* message that contributed a note
C1_Witness ==
    /\ pc = "collected"
    /\ \E i, j, k \in DOMAIN processed :
          /\ Unresolved(processed[i]) /\ processed[i].failed > 0
          /\ Unresolved(processed[j]) /\ processed[j].failed = 0
          /\ Contains(processed[j].message, <<"#","x">>)
          /\ processed[k].added # <<>>
    /\ all_notes # <<>>

-----------------------------------------------------------------------------
(* release_notes: grouping and rendering.                                  *)

RECURSIVE StrLess(_, _)
\* a < b for Python strings: by code point, a proper prefix first
StrLess(a, b) ==
    IF b = <<>> THEN FALSE
    ELSE IF a = <<>> THEN TRUE
    ELSE IF a[1] # b[1] THEN Ord(a[1]) < Ord(b[1])
    ELSE StrLess(Tail(a), Tail(b))

RECURSIVE InsertNote(_, _)
\* x put behind every note whose key is not greater: the sort is stable
InsertNote(sorted, x) ==
    IF sorted = <<>> THEN <<x>>
    ELSE IF sorted[Len(sorted)].dte <= x.dte THEN Append(sorted, x)
    ELSE Append(InsertNote(SubSeq(sorted, 1, Len(sorted) - 1), x),
                sorted[Len(sorted)])

RECURSIVE SortedNotes(_)
\* line 95: sorted(notes, key=lambda s: s[0])
SortedNotes(ns) ==
    IF ns = <<>> THEN <<>>
    ELSE InsertNote(SortedNotes(SubSeq(ns, 1, Len(ns) - 1)), ns[Len(ns)])

\* reversed(seq)
Reversed(seq) == [i \in DOMAIN seq |-> seq[Len(seq) + 1 - i]]

\* GroupingOrder without reversed(): oldest first
GroupingOrder_Ascending(ns) == SortedNotes(ns)

\* GroupingOrder without the sort: the reversed collection order
GroupingOrder_Unsorted(ns) == Reversed(ns)

\* line 95: the order in which the notes are grouped
GroupingOrder(ns) == Reversed(SortedNotes(ns))

\* lines 96-98 for one note: sections[section].append(body)
AddToSection(secs, n) ==
    IF \E k \in DOMAIN secs : secs[k].title = n.section
    THEN [k \in DOMAIN secs |->
            IF secs[k].title = n.section
            THEN [secs[k] EXCEPT !.entries = Append(@, n.body)]
            ELSE secs[k]]
    ELSE Append(secs, [title |-> n.section, entries |-> <<n.body>>])

RECURSIVE GroupFrom(_, _)
GroupFrom(secs, ns) ==
    IF ns = <<>> THEN secs ELSE GroupFrom(AddToSection(secs, ns[1]), Tail(ns))

\* lines 94-98: the sections dict
Group(ns) == GroupFrom(<<>>, GroupingOrder(ns))

RECURSIVE InsertSection(_, _)
InsertSection(sorted, x) ==
    IF sorted = <<>> THEN <<x>>
    ELSE IF StrLess(x.title, sorted[Len(sorted)].title)
         THEN Append(InsertSection(SubSeq(sorted, 1, Len(sorted) - 1), x),
                     sorted[Len(sorted)])
    ELSE Append(sorted, x)

RECURSIVE SortedSections(_)
\* line 101: sorted(sections), each title with its entries
SortedSections(secs) ==
    IF secs = <<>> THEN <<>>
    ELSE InsertSection(SortedSections(SubSeq(secs, 1, Len(secs) - 1)),
                       secs[Len(secs)])

\* lines 105-106: the bullet line of an entry
Bullet(entry) ==
    IF StartsWith(entry, <<"*"," ">>) THEN entry ELSE <<"*"," ">> \o entry

\* lines 102-108 for one title
SectionLines(sec) ==
    (IF sec.title # <<>> THEN <<<<"#","#"," ">> \o capfirst(sec.title)>> ELSE <<>>)
      \o [k \in DOMAIN sec.entries |-> Bullet(sec.entries[k])]
      \o << <<>> >>

RECURSIVE AllSectionLines(_)
AllSectionLines(secs) ==
    IF secs = <<>> THEN <<>>
    ELSE SectionLines(secs[1]) \o AllSectionLines(Tail(secs))

\* lines 100-108: the body list
BodyLines(version, dt, secs) ==
    << <<"#"," ","V","e","r","."," ">> \o version \o <<" ","-"," ">> \o dt, <<>> >>
      \o AllSectionLines(SortedSections(secs))

\* lines 94-109: the document returned for the notes ns
Document(version, dt, ns) == Join(BodyLines(version, dt, Group(ns)), <<"\n">>)

\* the version released and date.today() as '%Y-%b-%d'
Version == <<"1",".","0">>
Today == <<"2","0","1","6","-","J","a","n","-","0","1">>

-----------------------------------------------------------------------------
(* SpecRender: release_notes on the note lists the collectors return.      *)

\* section and body of the notes the collectors return: unsectioned notes
\* and notes of two sections, with and without a leading bullet
NoteKinds ==
    { [section |-> <<>>, body |-> <<"A"," ","[","c","]","(","u",")">>],
      [section |-> <<>>, body |-> <<"*"," ","B"," ","[","c","]","(","u",")">>],
      [section |-> <<"a">>, body |-> <<"A"," ","[","c","]","(","u",")">>],
      [section |-> <<"a">>, body |-> <<"*"," ","B"," ","[","c","]","(","u",")">>],
      [section |-> <<"b">>, body |-> <<"A"," ","[","c","]","(","u",")">>] }

NoteSet ==
    {[dte |-> d, section |-> k.section, body |-> k.body] :
        d \in Dates, k \in NoteKinds}

RECURSIVE SeqsUpTo(_, _)
SeqsUpTo(S, n) ==
    IF n = 0 THEN {<<>>}
    ELSE LET prev == SeqsUpTo(S, n - 1)
         IN  prev \cup {Append(q, x) : q \in prev, x \in S}

\* line 91: notes.extend(await self._from_commits(repo, created_at))
CommitsReturn ==
    /\ pc = "release_notes"
    /\ \E list \in SeqsUpTo(NoteSet, MaxNotes) : all_notes' = all_notes \o list
    /\ pc' = "await_pulls"
    /\ UNCHANGED <<sections, doc>>
    /\ UNCHANGED <<noteVars, collectVars, releaseVars>>

\* line 92: notes.extend(await self._from_pull_requests(repo, created_at))
PullsReturn ==
    /\ pc = "await_pulls"
    /\ \E list \in SeqsUpTo(NoteSet, MaxNotes - Len(all_notes)) :
          all_notes' = all_notes \o list
    /\ pc' = "collected"
    /\ UNCHANGED <<sections, doc>>
    /\ UNCHANGED <<noteVars, collectVars, releaseVars>>

\* lines 94-98
GroupNotes ==
    /\ pc = "collected"
    /\ sections' = Group(all_notes)
    /\ pc' = "grouped"
    /\ UNCHANGED <<all_notes, doc>>
    /\ UNCHANGED <<noteVars, collectVars, releaseVars>>

\* lines 100-109
Render ==
    /\ pc = "grouped"
    /\ doc' = BodyLines(Version, Today, sections)
    /\ release' = Join(doc', <<"\n">>)
    /\ pc' = "rendered"
    /\ UNCHANGED <<all_notes, sections>>
    /\ UNCHANGED <<cfg, file, calls>>
    /\ UNCHANGED <<noteVars, collectVars>>

InitRender ==
    /\ pc = "release_notes"
    /\ message = <<>>
    /\ idx = 0
    /\ substitutes = <<>>
    /\ notes = <<>>
    /\ lookups = <<>>
    /\ raised = ""
    /\ meta = CommitMeta
    /\ IdleCollect
    /\ IdleRender
    /\ IdleRelease

NextRender ==
    \/ CommitsReturn
    \/ PullsReturn
    \/ GroupNotes
    \/ Render

SpecRender == InitRender /\ [][NextRender]_vars

-----------------------------------------------------------------------------
(* Claims about release_notes, checked under SpecRender.                   *)

SectionKeys == {all_notes[i].section : i \in DOMAIN all_notes}

HeadingLine(t) == <<"#","#"," ">> \o capfirst(t)

HeadingIndexes == {i \in DOMAIN doc : StartsWith(doc[i], <<"#","#"," ">>)}

\* index of the first entry line of section t: the unsectioned entries follow
\* the title and the blank line, the others their heading
FirstEntry(t) ==
    IF t = <<>> THEN 3 ELSE 1 + CHOOSE i \in DOMAIN doc : doc[i] = HeadingLine(t)

\* the entry lines of section t: up to the next blank line
Block(t) ==
    LET from == FirstEntry(t)
        to == CHOOSE j \in from..Len(doc) :
                 doc[j] = <<>> /\ \A k \in from..(j - 1) : doc[k] # <<>>
    IN  SubSeq(doc, from, to - 1)

\* indexes of the notes of section t
NotesOf(t) == {i \in DOMAIN all_notes : all_notes[i].section = t}

\* lines holds every note of section t once, in descending timestamp order
DescendingBlock(t, lines) ==
    /\ Len(lines) = Cardinality(NotesOf(t))
    /\ \E f \in [DOMAIN lines -> NotesOf(t)] :
          /\ \A i, j \in DOMAIN lines : i # j => f[i] # f[j]
          /\ \A i \in DOMAIN lines : lines[i] = Bullet(all_notes[f[i]].body)
          /\ \A i, j \in DOMAIN lines :
                i < j => all_notes[f[i]].dte >= all_notes[f[j]].dte

\* C5: in the document the sections appear in ascending order of section
\* key, the unsectioned entries first and without a heading; every note
\* appears in exactly one section, the one its key names; and within each
\* section the entries are in descending order of timestamp.
C5_Thm ==
    pc = "rendered" =>
        /\ \A t \in SectionKeys \ {<<>>} :
              Cardinality({i \in DOMAIN doc : doc[i] = HeadingLine(t)}) = 1
        /\ Cardinality(HeadingIndexes) = Cardinality(SectionKeys \ {<<>>})
        /\ \A t, u \in SectionKeys : StrLess(t, u) => FirstEntry(t) < FirstEntry(u)
        /\ \A t \in SectionKeys : DescendingBlock(t, Block(t))
        /\ Len(doc) = 2 + Len(all_notes) + Cardinality(HeadingIndexes)
                        + Cardinality(SectionKeys)

\* a document with unsectioned entries and a named section collected before
\* them, one section with two notes of different timestamps collected oldest
\* first
C5_Witness ==
    /\ pc = "rendered"
    /\ <<>> \in SectionKeys
    /\ \E i, j \in DOMAIN all_notes :
          i < j /\ all_notes[i].section # <<>> /\ all_notes[j].section = <<>>
    /\ \E i, j \in DOMAIN all_notes :
          /\ i < j
          /\ all_notes[i].section = all_notes[j].section
          /\ all_notes[i].dte < all_notes[j].dte
          /\ all_notes[i].body # all_notes[j].body

\* the permutations of 1..n, for every length of a list of notes
IndexPermutations ==
    [n \in 0..MaxNotes |->
        {g \in [1..n -> 1..n] : \A i, j \in 1..n : i # j => g[i] # g[j]}]

\* the orders in which the notes ns can be collected
Orders(ns) == {[i \in DOMAIN ns |-> ns[f[i]]] : f \in IndexPermutations[Len(ns)]}

\* the notes of ns with timestamp d and section t, in collection order
Class(ns, d, t) == SelectSeq(ns, LAMBDA n : n.dte = d /\ n.section = t)

\* p and q collect the notes that share a timestamp and a section in the
\* same relative order
SameTieOrder(p, q) ==
    \A i \in DOMAIN p : Class(p, p[i].dte, p[i].section)
                          = Class(q, p[i].dte, p[i].section)

\* C6 as claimed: whatever the order in which the same notes are collected,
\* notes that share a timestamp included, release_notes returns the
\* identical document.
C6_Original ==
    pc = "rendered" =>
        \A p \in Orders(all_notes) : Document(Version, Today, p) = release

\* C6 amended: two collection orders of the same notes give the identical
\* document when the notes that share both a timestamp and a section are
\* collected in the same relative order.
C6_Thm ==
    pc = "rendered" =>
        \A p \in Orders(all_notes) :
            SameTieOrder(p, all_notes) => Document(Version, Today, p) = release

\* a rendered run whose notes can be collected in another order that keeps
\* the ties, among them two notes of one section with different timestamps
\* and two notes of one timestamp in different sections
C6_Witness ==
    /\ pc = "rendered"
    /\ \E p \in Orders(all_notes) : p # all_notes /\ SameTieOrder(p, all_notes)
    /\ \E i, j \in DOMAIN all_notes :
          /\ all_notes[i].section = all_notes[j].section
          /\ all_notes[i].dte < all_notes[j].dte
    /\ \E i, j \in DOMAIN all_notes :
          /\ all_notes[i].section # all_notes[j].section
          /\ all_notes[i].dte = all_notes[j].dte

-----------------------------------------------------------------------------
(* __call__: the release.  calls records every call of a collaborator      *)
(* (template rendering, the repository, the notes file, git) in order,     *)
(* with ok = FALSE for the call that raised.                               *)

Ok(op) == [op |-> op, ok |-> TRUE]
Failed(op) == [op |-> op, ok |-> FALSE]

\* lines 65 and 82: after the notes, to write_notes or to the return
AfterNotes == IF cfg.commit \/ cfg.push THEN "write_notes" ELSE "returned"

\* CheckVersion without the test of line 38
CheckVersion_Unchecked ==
    /\ pc = "call"
    /\ pc' = "validate_tag"
    /\ calls' = calls \o <<Ok("render")>>
                  \o (IF cfg.python_module
                      THEN <<Ok("module_attribute")>> ELSE <<>>)
                  \o <<Ok("repo")>>
    /\ UNCHANGED <<noteVars, collectVars, renderVars>>
    /\ UNCHANGED <<cfg, file, release>>

\* lines 37-48: the version is read, rendered, and the repository opened
CheckVersion ==
    /\ pc = "call"
    /\ IF cfg.version = <<>>
       THEN /\ pc' = "raised"
            /\ raised' = "AgileError"
            /\ UNCHANGED calls
       ELSE /\ pc' = "validate_tag"
            /\ calls' = calls \o <<Ok("render")>>
                          \o (IF cfg.python_module
                              THEN <<Ok("module_attribute")>> ELSE <<>>)
                          \o <<Ok("repo")>>
            /\ UNCHANGED raised
    /\ UNCHANGED <<message, idx, substitutes, notes, lookups, meta>>
    /\ UNCHANGED <<cfg, file, release>>
    /\ UNCHANGED <<collectVars, renderVars>>

\* line 49: validate_tag returns the current tag
ValidateTagOk ==
    /\ pc = "validate_tag"
    /\ calls' = Append(calls, Ok("validate_tag"))
    /\ pc' = "notes"
    /\ UNCHANGED <<cfg, file, release>>
    /\ UNCHANGED <<noteVars, collectVars, renderVars>>

\* line 49: validate_tag raises
ValidateTagFail ==
    /\ pc = "validate_tag"
    /\ calls' = Append(calls, Failed("validate_tag"))
    /\ pc' = "raised"
    /\ raised' = "TagError"
    /\ UNCHANGED <<message, idx, substitutes, notes, lookups, meta>>
    /\ UNCHANGED <<cfg, file, release>>
    /\ UNCHANGED <<collectVars, renderVars>>

\* ReadNotesFile without strip()
ReadNotesFile_Verbatim ==
    /\ pc = "notes"
    /\ file.exists
    /\ calls' = Append(calls, Ok("read_file"))
    /\ release' = file.content
    /\ pc' = AfterNotes
    /\ UNCHANGED <<cfg, file>>
    /\ UNCHANGED <<noteVars, collectVars, renderVars>>

\* lines 53-55: the notes file exists
ReadNotesFile ==
    /\ pc = "notes"
    /\ file.exists
    /\ calls' = Append(calls, Ok("read_file"))
    /\ release' = Strip(file.content)
    /\ pc' = AfterNotes
    /\ UNCHANGED <<cfg, file>>
    /\ UNCHANGED <<noteVars, collectVars, renderVars>>

\* lines 56-63 with release_notes (lines 87-109): the notes are generated
\* from what the collectors return, and written to the file
GenerateNotes ==
    /\ pc = "notes"
    /\ ~file.exists
    /\ \E commits \in SeqsUpTo(NoteSet, MaxGenerated) :
       \E pulls \in SeqsUpTo(NoteSet, MaxGenerated - Len(commits)) :
          /\ all_notes' = commits \o pulls
          /\ sections' = Group(all_notes')
          /\ doc' = BodyLines(Version, Today, sections')
          /\ release' = Join(doc', <<"\n">>)
    /\ file' = [exists |-> TRUE, content |-> release']
    /\ calls' = calls \o <<Ok("commits"), Ok("pulls"), Ok("write_file")>>
    /\ pc' = AfterNotes
    /\ UNCHANGED cfg
    /\ UNCHANGED <<noteVars, collectVars>>

\* lines 59-60: a fetch of release_notes raises, nothing is written
GenerateNotesFail ==
    /\ pc = "notes"
    /\ ~file.exists
    /\ \E made \in {<<Failed("commits")>>, <<Ok("commits"), Failed("pulls")>>} :
          calls' = calls \o made
    /\ pc' = "raised"
    /\ raised' = "FetchError"
    /\ UNCHANGED <<message, idx, substitutes, notes, lookups, meta>>
    /\ UNCHANGED <<cfg, file, release>>
    /\ UNCHANGED <<collectVars, renderVars>>

\* line 68: await self.cfg.write_notes(self.app, release)
WriteNotes ==
    /\ pc = "write_notes"
    /\ calls' = Append(calls, Ok("write_notes"))
    /\ pc' = "commit"
    /\ UNCHANGED <<cfg, file, release>>
    /\ UNCHANGED <<noteVars, collectVars, renderVars>>

\* GitCommit with create_tag outside the test of the push flag
GitCommit_AlwaysTags ==
    /\ pc = "commit"
    /\ calls' = Append(calls, Ok("commit"))
    /\ pc' = IF cfg.push THEN "push" ELSE "create_tag"
    /\ UNCHANGED <<cfg, file, release>>
    /\ UNCHANGED <<noteVars, collectVars, renderVars>>

\* lines 70-72: await git.commit(...), then the push flag is tested
GitCommit ==
    /\ pc = "commit"
    /\ calls' = Append(calls, Ok("commit"))
    /\ pc' = IF cfg.push THEN "push" ELSE "returned"
    /\ UNCHANGED <<cfg, file, release>>
    /\ UNCHANGED <<noteVars, collectVars, renderVars>>

\* line 74: await git.push()
GitPush ==
    /\ pc = "push"
    /\ calls' = Append(calls, Ok("push"))
    /\ pc' = "create_tag"
    /\ UNCHANGED <<cfg, file, release>>
    /\ UNCHANGED <<noteVars, collectVars, renderVars>>

\* lines 78-82: await repo.create_tag(release); return True
CreateTag ==
    /\ pc = "create_tag"
    /\ calls' = Append(calls, Ok("create_tag"))
    /\ pc' = "returned"
    /\ UNCHANGED <<cfg, file, release>>
    /\ UNCHANGED <<noteVars, collectVars, renderVars>>

\* lines 68-78: the awaited call raises, nothing catches it
PublishFail ==
    /\ pc \in {"write_notes", "commit", "push", "create_tag"}
    /\ calls' = Append(calls, Failed(pc))
    /\ pc' = "raised"
    /\ raised' = "CollaboratorError"
    /\ UNCHANGED <<message, idx, substitutes, notes, lookups, meta>>
    /\ UNCHANGED <<cfg, file, release>>
    /\ UNCHANGED <<collectVars, renderVars>>

\* the configured version, empty when the option is absent
Versions == { <<>>, Version }

\* release-notes.md as found
FileContents == { <<"#"," ","N">>, <<"#"," ","N","\n">>, <<"\n","#"," ","N","\n","\n","*"," ","A","\n">> }

InitRelease ==
    /\ pc = "call"
    /\ message = <<>>
    /\ idx = 0
    /\ substitutes = <<>>
    /\ notes = <<>>
    /\ lookups = <<>>
    /\ raised = ""
    /\ meta = CommitMeta
    /\ IdleCollect
    /\ IdleRender
    /\ cfg \in [version : Versions, python_module : BOOLEAN, commit : BOOLEAN,
                push : BOOLEAN]
    /\ file \in {[exists |-> FALSE, content |-> <<>>]}
                 \cup [exists : {TRUE}, content : FileContents]
    /\ release = <<>>
    /\ calls = <<>>

NextRelease ==
    \/ CheckVersion
    \/ ValidateTagOk
    \/ ValidateTagFail
    \/ ReadNotesFile
    \/ GenerateNotes
    \/ GenerateNotesFail
    \/ WriteNotes
    \/ GitCommit
    \/ GitPush
    \/ CreateTag
    \/ PublishFail

SpecRelease == InitRelease /\ [][NextRelease]_vars

-----------------------------------------------------------------------------
(* Claims about __call__, checked under SpecRelease.                       *)

\* the work that follows the validation of the tag
Work == {"commits", "pulls", "read_file", "write_file", "write_notes",
         "commit", "push", "create_tag"}

Ops(cs) == [i \in DOMAIN cs |-> cs[i].op]

\* C7: no further work (fetching, reading or writing the notes file,
\* write_notes, commit, push, create_tag) happens unless a version was
\* configured and validate_tag returned before it: a missing version aborts
\* before any call to a collaborator, a failed validation before any of
\* those steps.
C7_Thm ==
    /\ cfg.version = <<>> =>
          /\ calls = <<>>
          /\ pc \in {"call", "raised"}
          /\ pc = "raised" => raised = "AgileError"
    /\ \A i \in DOMAIN calls :
          calls[i].op \in Work =>
              /\ cfg.version # <<>>
              /\ \E j \in 1..(i - 1) : calls[j] = Ok("validate_tag")
    /\ \A i \in DOMAIN calls :
          calls[i] = Failed("validate_tag") =>
              i = Len(calls) /\ pc = "raised" /\ raised = "TagError"
    /\ (\A i \in DOMAIN calls : calls[i] # Ok("validate_tag")) =>
          /\ release = <<>>
          /\ "write_file" \notin {calls[i].op : i \in DOMAIN calls}

\* a run with commit and push set and no notes file that stopped at the
\* failed validation of the tag
C7_Witness ==
    /\ pc = "raised"
    /\ raised = "TagError"
    /\ cfg.commit /\ cfg.push /\ ~file.exists
    /\ calls[Len(calls)] = Failed("validate_tag")

PublishOps == {"write_notes", "commit", "push", "create_tag"}

\* the calls of write_notes, commit, push and create_tag, in order
Published == SelectSeq(Ops(calls), LAMBDA op : op \in PublishOps)

\* C8 as claimed: every run that completes has requested create_tag exactly
\* once, as its final external action, whatever the commit and push flags;
\* commit and push are each performed only when their own flag is set.
C8_Original ==
    pc = "returned" =>
        /\ Cardinality({i \in DOMAIN calls : calls[i].op = "create_tag"}) = 1
        /\ calls[Len(calls)].op = "create_tag"
        /\ (\E i \in DOMAIN calls : calls[i].op = "commit") => cfg.commit
        /\ (\E i \in DOMAIN calls : calls[i].op = "push") => cfg.push

\* C8 amended: a run that completes has requested create_tag exactly once,
\* as its final external action after write_notes, commit and push, when the
\* push flag is set, and not at all otherwise; write_notes and commit are
\* performed once when commit or push is set, push once when push is set.
C8_Thm ==
    pc = "returned" =>
        /\ Published = IF cfg.push
                       THEN <<"write_notes", "commit", "push", "create_tag">>
                       ELSE IF cfg.commit THEN <<"write_notes", "commit">>
                       ELSE <<>>
        /\ SubSeq(Ops(calls), Len(calls) - Len(Published) + 1, Len(calls))
              = Published
        /\ \A i \in DOMAIN calls : calls[i].ok

\* a completed run with push set and commit not set
C8_Witness ==
    /\ pc = "returned"
    /\ cfg.push /\ ~cfg.commit
    /\ calls[Len(calls)] = Ok("create_tag")

FetchOps == {"commits", "pulls"}

\* the step of lines 52-63 that decided the release body
NotesStep == pc = "notes" /\ pc' \notin {"notes", "raised"}

\* s is t without its leading and trailing whitespace
IsStripped(s, t) ==
    /\ s # <<>> => ~IsSpace(s[1]) /\ ~IsSpace(s[Len(s)])
    /\ \E i \in 0..Len(t) : \E j \in i..Len(t) :
          /\ s = SubSeq(t, i + 1, j)
          /\ \A k \in (1..i) \cup ((j + 1)..Len(t)) : IsSpace(t[k])

\* what C9 says of a run without a notes file: it is generated from commits
\* and pull requests, and the file is created with exactly the generated
\* content, which is also the release body
GeneratedAndWritten ==
    /\ \E i, j \in DOMAIN calls' :
          i < j /\ calls'[i] = Ok("commits") /\ calls'[j] = Ok("pulls")
    /\ release' = Document(Version, Today, all_notes')
    /\ file' = [exists |-> TRUE, content |-> release']

\* C9 as claimed: with the notes file present the release body is the file's
\* content verbatim, nothing is fetched and the file is left unchanged;
\* without it the notes are generated and written.
C9_Original ==
    [][ /\ file.exists => file' = file
        /\ NotesStep =>
              IF file.exists
              THEN /\ release' = file.content
                   /\ \A i \in DOMAIN calls' : calls'[i].op \notin FetchOps
              ELSE GeneratedAndWritten ]_vars

\* C9 amended: with the notes file present the release body is the file's
\* content with its leading and trailing whitespace stripped, nothing is
\* fetched and the file is left unchanged; without it the notes are
\* generated and written.
C9_Thm ==
    [][ /\ file.exists => file' = file
        /\ NotesStep =>
              IF file.exists
              THEN /\ IsStripped(release', file.content)
                   /\ \A i \in DOMAIN calls' : calls'[i].op \notin FetchOps
              ELSE GeneratedAndWritten ]_vars

\* the body was read from a notes file that ends with a newline
C9_Witness ==
    /\ \E i \in DOMAIN calls : calls[i] = Ok("read_file")
    /\ file.exists
    /\ file.content # release
    /\ release # <<>>

====
